---- MODULE Spec2Model ----
(***************************************************************************)
(* A model of scripts/import_models.py: the importer that reads a JSON     *)
(* snapshot of model entries and downloads each file below a destination   *)
(* root.  Strings are sequences of one-character strings, so that lower(), *)
(* substring search, split("?"), basename and the pathlib join are         *)
(* computed and not assumed.  A path is a sequence of segments.            *)
(***************************************************************************)
EXTENDS Integers, Sequences, FiniteSets, TLC

VARIABLES
    argc,        \* len(sys.argv)
    data,        \* the value json.load returned
    pc,          \* position of the single thread of control
    run,         \* "first" or "second" invocation on the same manifest and root
    entries,     \* main: entries
    idx,         \* main: index (1-based) of the entry the for loop is at
    downloaded,  \* main: downloaded
    exitCode,    \* process exit status, -1 while running
    fs,          \* files below the destination root: path -> content
    dirs,        \* directories that exist
    url,         \* download_file: url
    dest,        \* download_file: dest
    attempt,     \* download_file: attempt
    ok,          \* value download_file returned
    nameIn,      \* filename given to choose_folder_by_name when it is called on its own
    folderOut,   \* what that call returned
    \* ---- history (observation only, never read by an action's guard) ----
    slept,       \* time.sleep arguments of the current download_file call, in tenths
    outcomes,    \* outcome of each attempt of the current download_file call
    reqs,        \* indices of the entries for which urlopen was called in this run
    oklog,       \* indices of the entries whose download returned True in this run
    status,      \* per-entry report of this run: index -> what was printed
    fsStart,     \* fs when this run started
    fsCall,      \* fs when the current download_file call started
    dirsCall,    \* dirs when the current download_file call started
    endFirst,    \* paths that existed when the first run ended
    promoted     \* <<path, content>> pairs put in place by os.replace in this run

vars == <<argc, data, pc, run, entries, idx, downloaded, exitCode, fs, dirs, url,
          dest, attempt, ok, nameIn, folderOut, slept, outcomes, reqs, oklog, status,
          fsStart, fsCall, dirsCall, endFirst, promoted>>

-----------------------------------------------------------------------------
(* Bounds of the model *)

\* longest entry list of a manifest of the run specification
MaxEntries == 2
\* number of chunks copyfileobj writes for one response body
BodyLen == 2
\* files that may exist below the root before the first run
MaxPre == 1
\* longest filename given to choose_folder_by_name on its own
MaxNameLen == 5

-----------------------------------------------------------------------------
(* Strings *)

UpperAlpha ==
    <<"A","B","C","D","E","F","G","H","I","J","K","L","M",
      "N","O","P","Q","R","S","T","U","V","W","X","Y","Z">>

LowerAlpha ==
    <<"a","b","c","d","e","f","g","h","i","j","k","l","m",
      "n","o","p","q","r","s","t","u","v","w","x","y","z">>

LowerChar(c) ==
    IF \E i \in 1..26 : UpperAlpha[i] = c
    THEN LowerAlpha[CHOOSE i \in 1..26 : UpperAlpha[i] = c]
    ELSE c

\* str.lower()
Lower(s) == [i \in 1..Len(s) |-> LowerChar(s[i])]

\* kw in name
Contains(s, kw) ==
    \E i \in 1..(Len(s) - Len(kw) + 1) : SubSeq(s, i, i + Len(kw) - 1) = kw

\* positions of character c in s
Positions(s, c) == {i \in 1..Len(s) : s[i] = c}

Min(S) == CHOOSE x \in S : \A y \in S : x <= y
Max(S) == CHOOSE x \in S : \A y \in S : x >= y

\* url.split("?")[0]
BeforeQuery(s) ==
    IF Positions(s, "?") = {} THEN s ELSE SubSeq(s, 1, Min(Positions(s, "?")) - 1)

\* os.path.basename
Basename(s) ==
    IF Positions(s, "/") = {} THEN s ELSE SubSeq(s, Max(Positions(s, "/")) + 1, Len(s))

-----------------------------------------------------------------------------
(* Words of the program text, spelled as character sequences *)

W_checkpoints == <<"c","h","e","c","k","p","o","i","n","t","s">>

W_vae == <<"v","a","e">>

W_diffusers == <<"d","i","f","f","u","s","e","r","s">>

W_embeddings == <<"e","m","b","e","d","d","i","n","g","s">>

W_clip == <<"c","l","i","p">>

W_upscale_models == <<"u","p","s","c","a","l","e","_","m","o","d","e","l","s">>

W_ckpt == <<"c","k","p","t">>

W_safetensors == <<"s","a","f","e","t","e","n","s","o","r","s">>

W_pt == <<"p","t">>

W_diffuser == <<"d","i","f","f","u","s","e","r">>

W_bin == <<"b","i","n">>

W_upscale == <<"u","p","s","c","a","l","e">>

W_realesrgan == <<"r","e","a","l","e","s","r","g","a","n">>

TmpSuffix == <<".","t","m","p">>

-----------------------------------------------------------------------------
(* JSON values as json.load returns them *)

None == [t |-> "null"]
Str(s) == [t |-> "str", s |-> s]
Num(n) == [t |-> "num", n |-> n]
List(elems) == [t |-> "list", elems |-> elems]
\* a dict keeps insertion order: a sequence of <<key, value>> with distinct keys
Dict(items) == [t |-> "dict", items |-> items]

\* bool(v)
Truthy(v) ==
    CASE v.t = "null" -> FALSE
      [] v.t = "str"  -> v.s # <<>>
      [] v.t = "num"  -> v.n # 0
      [] v.t = "list" -> v.elems # <<>>
      [] v.t = "dict" -> v.items # <<>>

HasKey(d, k) == \E i \in 1..Len(d.items) : d.items[i][1] = k

\* d[k]
Lookup(d, k) == d.items[CHOOSE i \in 1..Len(d.items) : d.items[i][1] = k][2]

\* dict.get(k): None when the key is missing
Get(d, k) == IF HasKey(d, k) THEN Lookup(d, k) ELSE None

\* list(d.values())
Values(d) == [i \in 1..Len(d.items) |-> d.items[i][2]]

\* v1 or v2 or ... or vn: the first truthy operand, else the last operand
OrChain(vals) ==
    IF \E i \in 1..Len(vals) : Truthy(vals[i])
    THEN vals[Min({i \in 1..Len(vals) : Truthy(vals[i])})]
    ELSE vals[Len(vals)]

-----------------------------------------------------------------------------
(* DEFAULT_LAYOUT and choose_folder_by_name *)

\* dict order is insertion order: the order the for loop visits the folders in
DEFAULT_LAYOUT ==
    << [folder |-> W_checkpoints,    keywords |-> <<W_ckpt, W_safetensors, W_pt>>],
       [folder |-> W_vae,            keywords |-> <<W_vae>>],
       [folder |-> W_diffusers,      keywords |-> <<W_diffusers, W_diffuser>>],
       [folder |-> W_embeddings,     keywords |-> <<W_embeddings, W_bin>>],
       [folder |-> W_clip,           keywords |-> <<W_clip>>],
       [folder |-> W_upscale_models, keywords |-> <<W_upscale, W_realesrgan>>] >>

\* some keyword of layout row i occurs in name
RowMatches(i, name) ==
    \E k \in 1..Len(DEFAULT_LAYOUT[i].keywords) :
        Contains(name, DEFAULT_LAYOUT[i].keywords[k])

choose_folder_by_name(filename) ==
    LET name == Lower(filename)
        hits == {i \in 1..Len(DEFAULT_LAYOUT) : RowMatches(i, name)}
    IN  IF hits # {} THEN DEFAULT_LAYOUT[Min(hits)].folder ELSE W_checkpoints

-----------------------------------------------------------------------------
(* Paths: pathlib.Path as a sequence of segments *)

\* the segment that marks an absolute path
Slash == <<"/">>

RECURSIVE Split(_)
\* the segments of a path string: split on "/", drop empty and "." segments
Split(s) ==
    IF s = <<>> THEN <<>>
    ELSE IF Positions(s, "/") = {} THEN (IF s = <<".">> THEN <<>> ELSE <<s>>)
    ELSE LET p == Min(Positions(s, "/"))
             head == SubSeq(s, 1, p - 1)
             rest == Split(SubSeq(s, p + 1, Len(s)))
         IN  IF head = <<>> \/ head = <<".">> THEN rest ELSE <<head>> \o rest

\* base / s : an absolute s replaces base
PathJoin(base, s) ==
    IF s # <<>> /\ s[1] = "/" THEN <<Slash>> \o Split(s) ELSE base \o Split(s)

\* Path.parent
Parent(p) ==
    IF p = <<>> \/ p = <<Slash>> THEN p ELSE SubSeq(p, 1, Len(p) - 1)

\* sys.argv[2]
dest_root == <<"m">>

Root == PathJoin(<<>>, dest_root)

\* str(dest) + ".tmp"
TmpOf(p) ==
    IF p = <<>> THEN << <<".">> \o TmpSuffix >>
    ELSE IF p = <<Slash>> THEN <<Slash, TmpSuffix>>
    ELSE SubSeq(p, 1, Len(p) - 1) \o << p[Len(p)] \o TmpSuffix >>

\* p and its ancestors, without the current directory and the filesystem root
Prefixes(p) == {SubSeq(p, 1, k) : k \in 1..Len(p)} \ {<<Slash>>}

\* Path.exists()
Exists(p, files, ds) ==
    p = <<>> \/ p = <<Slash>> \/ p \in ds \/ p \in DOMAIN files

\* os.makedirs(p, exist_ok=True) raises when p or an ancestor is a file
MkdirRaises(p, files) == \E q \in Prefixes(p) : q \in DOMAIN files

\* ensure_dir
ensure_dir(p, ds) == ds \cup Prefixes(p)

Put(f, p, c) == [q \in DOMAIN f \cup {p} |-> IF q = p THEN c ELSE f[q]]

Del(f, p) == [q \in DOMAIN f \ {p} |-> f[q]]

\* a copy that leaves the source in place
os_replace_KeepsSource(f, src, dst) == Put(f, dst, f[src])

\* os.replace(src, dst) on files: dst gets src's content and src is gone
os_replace(f, src, dst) == Put(Del(f, src), dst, f[src])

-----------------------------------------------------------------------------
(* main: manifest normalisation and entry resolution *)

\* "models" in data and isinstance(data["models"], list)
HasModelsList(d) == HasKey(d, "models") /\ Lookup(d, "models").t = "list"

\* isinstance(data, dict) or isinstance(data, list)
Recognized(d) == d.t \in {"dict", "list"}

\* the fallback to the mapping's values is missing
Normalize_NoFallback(d) ==
    IF d.t = "dict"
    THEN IF HasModelsList(d) THEN Lookup(d, "models").elems ELSE <<>>
    ELSE d.elems

\* the entries main iterates over, for a recognized top-level value
Normalize(d) ==
    IF d.t = "dict"
    THEN IF HasModelsList(d) THEN Lookup(d, "models").elems ELSE Values(d)
    ELSE d.elems

\* the first two keys in the wrong order
URL_KEYS_Swapped == <<"url", "download_url", "file_url", "location">>

URL_KEYS == <<"download_url", "url", "file_url", "location">>

NAME_KEYS == <<"name", "filename">>

\* the two keys in the wrong order
PATH_KEYS_Swapped == <<"relative_path", "path">>

PATH_KEYS == <<"path", "relative_path">>

\* entry.get(k1) or entry.get(k2) or ...
GetChain(e, keys) == OrChain([i \in 1..Len(keys) |-> Get(e, keys[i])])

\* url = entry.get("download_url") or entry.get("url") or ...
ResolveUrl(e) == GetChain(e, URL_KEYS)

\* name = entry.get("name") or entry.get("filename") or None
ResolveName(e) == OrChain(<<GetChain(e, NAME_KEYS), None>>)

\* rel_path = entry.get("path") or entry.get("relative_path") or None
ResolveRelPath(e) == OrChain(<<GetChain(e, PATH_KEYS), None>>)

\* os.path.basename(url.split("?")[0])
NameFromUrl(u) == Str(Basename(BeforeQuery(u.s)))

\* if rel_path: the explicit branch is taken
UsesRelPath(rp) == Truthy(rp)

\* dest = pathlib.Path(dest_root) / rel_path
ExplicitDest(rp) == PathJoin(Root, rp.s)

\* dest_dir = pathlib.Path(dest_root) / folder
FolderDir(n) == PathJoin(Root, choose_folder_by_name(n.s))

\* dest = dest_dir / name
ClassifiedDest(n) == PathJoin(FolderDir(n), n.s)

\* What lines 94-113 compute for one entry:
\*   raise : an exception no handler catches (.get on a non-dict, .split or
\*           .lower on a non-string, Path / non-string)
\*   nourl : the entry is skipped for want of a URL
\*   go    : url, name, dest and the directory ensure_dir is called on
Resolve(e) ==
    IF e.t # "dict" THEN [kind |-> "raise"]
    ELSE
      LET u  == ResolveUrl(e)
          n0 == ResolveName(e)
          rp == ResolveRelPath(e)
      IN
      IF ~Truthy(u) THEN [kind |-> "nourl"]
      ELSE IF ~Truthy(n0) /\ u.t # "str" THEN [kind |-> "raise"]
      ELSE
        LET n == IF Truthy(n0) THEN n0 ELSE NameFromUrl(u) IN
        IF UsesRelPath(rp)
        THEN IF rp.t # "str" THEN [kind |-> "raise"]
             ELSE [kind |-> "go", url |-> u, name |-> n,
                   dest |-> ExplicitDest(rp), mk |-> Parent(ExplicitDest(rp))]
        ELSE IF n.t # "str" THEN [kind |-> "raise"]
             ELSE [kind |-> "go", url |-> u, name |-> n,
                   dest |-> ClassifiedDest(n), mk |-> FolderDir(n)]

-----------------------------------------------------------------------------
(* download_file *)

\* retries=3
Retries == 3

\* backoff=1.5, in tenths of a second
BackoffTenths == 15

\* time.sleep(backoff * attempt)
SleepDelay(k) == BackoffTenths * k

\* one attempt too many
MoreAttempts_OffByOne(k) == k <= Retries

\* whether the for loop runs another attempt after attempt k failed
MoreAttempts(k) == k < Retries

\* the file open(tmp, "wb") leaves: truncated, nothing written yet
Opened(u) == [src |-> u, n |-> 0]

\* the body is complete once every chunk was written
Complete(c) == c.n = BodyLen

\* content of a file that was below the root before the first run
OldContent == [src |-> None, n |-> 0]

-----------------------------------------------------------------------------
(* The run *)

\* the entry the for loop is at
Cur == Resolve(entries[idx])

InLoop == pc = "loop" /\ idx <= Len(entries)

\* every path that exists
Existing == DOMAIN fs \cup dirs

callVars == <<url, dest, attempt, ok, slept, outcomes, fsCall, dirsCall>>

folderVars == <<nameIn, folderOut>>

inputVars == <<argc, data, run>>

\* len(sys.argv) < 3: usage message, sys.exit(2)
Usage ==
    /\ pc = "start"
    /\ argc < 3
    /\ pc' = "usage"
    /\ exitCode' = 2
    /\ UNCHANGED <<inputVars, entries, idx, downloaded, fs, dirs, callVars, folderVars,
                   reqs, oklog, status, fsStart, endFirst, promoted>>

\* the else branch of the shape test: "Unrecognized JSON structure", sys.exit(1)
Abort ==
    /\ pc = "start"
    /\ argc >= 3
    /\ ~Recognized(data)
    /\ pc' = "aborted"
    /\ exitCode' = 1
    /\ UNCHANGED <<inputVars, entries, idx, downloaded, fs, dirs, callVars, folderVars,
                   reqs, oklog, status, fsStart, endFirst, promoted>>

\* lines 71-91: entries chosen, "Found n model entries", downloaded = 0
Load ==
    /\ pc = "start"
    /\ argc >= 3
    /\ Recognized(data)
    /\ entries' = Normalize(data)
    /\ idx' = 1
    /\ downloaded' = 0
    /\ pc' = "loop"
    /\ UNCHANGED <<inputVars, exitCode, fs, dirs, callVars, folderVars,
                   reqs, oklog, status, fsStart, endFirst, promoted>>

\* an exception leaves the for loop and main: traceback, exit status 1
EntryRaises ==
    /\ InLoop
    /\ \/ Cur.kind = "raise"
       \/ Cur.kind = "go" /\ MkdirRaises(Cur.mk, fs)
    /\ pc' = "crashed"
    /\ exitCode' = 1
    /\ endFirst' = IF run = "first" THEN Existing ELSE endFirst
    /\ UNCHANGED <<inputVars, entries, idx, downloaded, fs, dirs, callVars, folderVars,
                   reqs, oklog, status, fsStart, promoted>>

\* if not url: "Skipping entry with no download URL", continue
EntrySkipNoUrl ==
    /\ InLoop
    /\ Cur.kind = "nourl"
    /\ status' = Append(status, [r |-> "nourl", dest |-> <<>>])
    /\ idx' = idx + 1
    /\ UNCHANGED <<inputVars, pc, entries, downloaded, exitCode, fs, dirs, callVars,
                   folderVars, reqs, oklog, fsStart, endFirst, promoted>>

\* ensure_dir, then dest.exists(): "Already exists, skipping", continue
EntryExists ==
    /\ InLoop
    /\ Cur.kind = "go"
    /\ ~MkdirRaises(Cur.mk, fs)
    /\ dirs' = ensure_dir(Cur.mk, dirs)
    /\ Exists(Cur.dest, fs, dirs')
    /\ status' = Append(status, [r |-> "exists", dest |-> Cur.dest])
    /\ idx' = idx + 1
    /\ UNCHANGED <<inputVars, pc, entries, downloaded, exitCode, fs, callVars,
                   folderVars, reqs, oklog, fsStart, endFirst, promoted>>

\* ensure_dir, dest absent: "Downloading ...", download_file is entered
EntryDownload ==
    /\ InLoop
    /\ Cur.kind = "go"
    /\ ~MkdirRaises(Cur.mk, fs)
    /\ dirs' = ensure_dir(Cur.mk, dirs)
    /\ ~Exists(Cur.dest, fs, dirs')
    /\ url' = Cur.url
    /\ dest' = Cur.dest
    /\ attempt' = 1
    /\ slept' = <<>>
    /\ outcomes' = <<>>
    /\ fsCall' = fs
    /\ dirsCall' = dirs'
    /\ pc' = "urlopen"
    /\ UNCHANGED <<inputVars, entries, idx, downloaded, exitCode, fs, ok, folderVars,
                   reqs, oklog, status, fsStart, endFirst, promoted>>

\* the except clause: "Attempt k failed", control reaches time.sleep
Failed ==
    /\ outcomes' = Append(outcomes, "fail")
    /\ pc' = "sleep"

\* urllib.request.urlopen(url, timeout=60): the server answers or the call raises
UrlOpen ==
    /\ pc = "urlopen"
    /\ reqs' = reqs \cup {idx}
    /\ \E answered \in (IF url.t = "str" THEN BOOLEAN ELSE {FALSE}) :
          IF answered THEN pc' = "open" /\ UNCHANGED outcomes ELSE Failed
    /\ UNCHANGED <<inputVars, entries, idx, downloaded, exitCode, fs, dirs, url, dest,
                   attempt, ok, slept, fsCall, dirsCall, folderVars, oklog, status,
                   fsStart, endFirst, promoted>>

\* open(tmp, "wb"): truncates or creates tmp; raises when tmp is a directory
OpenTmp ==
    /\ pc = "open"
    /\ IF TmpOf(dest) \in dirs
       THEN Failed /\ UNCHANGED fs
       ELSE /\ fs' = Put(fs, TmpOf(dest), Opened(url))
            /\ pc' = "copy"
            /\ UNCHANGED outcomes
    /\ UNCHANGED <<inputVars, entries, idx, downloaded, exitCode, dirs, url, dest,
                   attempt, ok, slept, fsCall, dirsCall, folderVars, reqs, oklog, status,
                   fsStart, endFirst, promoted>>

\* shutil.copyfileobj: one more chunk reaches tmp, or the transfer breaks; the
\* with blocks close the file and the response once the body is complete
CopyChunk ==
    /\ pc = "copy"
    /\ \E arrived \in BOOLEAN :
          IF arrived
          THEN /\ fs' = Put(fs, TmpOf(dest), [fs[TmpOf(dest)] EXCEPT !.n = @ + 1])
               /\ pc' = IF Complete(fs'[TmpOf(dest)]) THEN "replace" ELSE "copy"
               /\ UNCHANGED outcomes
          ELSE Failed /\ UNCHANGED fs
    /\ UNCHANGED <<inputVars, entries, idx, downloaded, exitCode, dirs, url, dest,
                   attempt, ok, slept, fsCall, dirsCall, folderVars, reqs, oklog, status,
                   fsStart, endFirst, promoted>>

\* os.replace(tmp, dest); return True.  It raises when dest is a directory or
\* the operating system refuses the rename; tmp then stays as it is.
Replace ==
    /\ pc = "replace"
    /\ \E renamed \in (IF dest \in dirs THEN {FALSE} ELSE BOOLEAN) :
          IF renamed
          THEN /\ fs' = os_replace(fs, TmpOf(dest), dest)
               /\ promoted' = promoted \cup {<<dest, fs[TmpOf(dest)]>>}
               /\ outcomes' = Append(outcomes, "ok")
               /\ ok' = TRUE
               /\ pc' = "ret"
          ELSE Failed /\ UNCHANGED <<fs, ok, promoted>>
    /\ UNCHANGED <<inputVars, entries, idx, downloaded, exitCode, dirs, url, dest,
                   attempt, slept, fsCall, dirsCall, folderVars, reqs, oklog, status,
                   fsStart, endFirst>>

\* time.sleep(backoff * attempt); next attempt, or the loop ends: return False
Sleep ==
    /\ pc = "sleep"
    /\ slept' = Append(slept, SleepDelay(attempt))
    /\ IF MoreAttempts(attempt)
       THEN attempt' = attempt + 1 /\ pc' = "urlopen" /\ UNCHANGED ok
       ELSE ok' = FALSE /\ pc' = "ret" /\ UNCHANGED attempt
    /\ UNCHANGED <<inputVars, entries, idx, downloaded, exitCode, fs, dirs, url, dest,
                   outcomes, fsCall, dirsCall, folderVars, reqs, oklog, status,
                   fsStart, endFirst, promoted>>

\* lines 121-125: "Downloaded" and downloaded += 1, or "Failed to download"
AfterDownload ==
    /\ pc = "ret"
    /\ downloaded' = IF ok THEN downloaded + 1 ELSE downloaded
    /\ oklog' = IF ok THEN Append(oklog, idx) ELSE oklog
    /\ status' = Append(status, [r |-> IF ok THEN "downloaded" ELSE "failed",
                                 dest |-> dest])
    /\ idx' = idx + 1
    /\ pc' = "loop"
    /\ url' = None
    /\ dest' = <<>>
    /\ attempt' = 0
    /\ slept' = <<>>
    /\ outcomes' = <<>>
    /\ fsCall' = <<>>
    /\ dirsCall' = {}
    /\ UNCHANGED <<inputVars, entries, exitCode, fs, dirs, ok, folderVars, reqs,
                   fsStart, endFirst, promoted>>

\* the for loop is exhausted: "Model import finished. Downloaded: n", exit status 0
Finish ==
    /\ pc = "loop"
    /\ idx > Len(entries)
    /\ pc' = "done"
    /\ exitCode' = 0
    /\ endFirst' = IF run = "first" THEN Existing ELSE endFirst
    /\ UNCHANGED <<inputVars, entries, idx, downloaded, fs, dirs, callVars, folderVars,
                   reqs, oklog, status, fsStart, promoted>>

\* the tool is started again with the same arguments on the files the first run left
Rerun ==
    /\ pc \in {"done", "crashed"}
    /\ run = "first"
    /\ run' = "second"
    /\ pc' = "start"
    /\ entries' = <<>>
    /\ idx' = 0
    /\ downloaded' = 0
    /\ exitCode' = -1
    /\ reqs' = {}
    /\ oklog' = <<>>
    /\ status' = <<>>
    /\ promoted' = {}
    /\ fsStart' = fs
    /\ UNCHANGED <<argc, data, fs, dirs, callVars, folderVars, endFirst>>

Next ==
    \/ Usage \/ Abort \/ Load
    \/ EntryRaises \/ EntrySkipNoUrl \/ EntryExists \/ EntryDownload
    \/ UrlOpen \/ OpenTmp \/ CopyChunk \/ Replace \/ Sleep \/ AfterDownload
    \/ Finish \/ Rerun

-----------------------------------------------------------------------------
(* Initial states *)

SeqsUpTo(S, n) == UNION {[1..k -> S] : k \in 0..n}

\* the destinations the entries of a manifest resolve to
DestsOf(d) ==
    IF Recognized(d)
    THEN {Resolve(Normalize(d)[i]).dest :
            i \in {j \in 1..Len(Normalize(d)) : Resolve(Normalize(d)[j]).kind = "go"}}
    ELSE {}

\* sets of files that can lie below the root before the first run: no file is
\* an ancestor of another
PreSets(d) ==
    {P \in SUBSET DestsOf(d) :
        /\ Cardinality(P) <= MaxPre
        /\ \A p, q \in P : p \notin Prefixes(Parent(q))}

\* the state before a process starts, for manifest d, a arguments and the files P
InitState(d, a, P) ==
    /\ argc = a
    /\ data = d
    /\ run = "first"
    /\ entries = <<>>
    /\ idx = 0
    /\ downloaded = 0
    /\ exitCode = -1
    /\ fs = [p \in P |-> OldContent]
    /\ dirs = UNION {Prefixes(Parent(p)) : p \in P}
    /\ url = None
    /\ dest = <<>>
    /\ attempt = 0
    /\ ok = FALSE
    /\ folderOut = <<>>
    /\ slept = <<>>
    /\ outcomes = <<>>
    /\ reqs = {}
    /\ oklog = <<>>
    /\ status = <<>>
    /\ fsStart = fs
    /\ fsCall = <<>>
    /\ dirsCall = {}
    /\ endFirst = {}
    /\ promoted = {}

InitFrom(D) ==
    \E d \in D : \E a \in {2, 3} : \E P \in PreSets(d) :
        InitState(d, a, P) /\ pc = "start" /\ nameIn = <<>>

-----------------------------------------------------------------------------
(* Manifests of the run specification *)

U_a == <<"h","/","a">>

U_b == <<"h","/","b">>

U_vae == <<"h","/","V","a","e","?","k">>

\* {"url": "h/a", "path": "a"}
E_a == Dict(<< <<"url", Str(U_a)>>, <<"path", Str(<<"a">>)>> >>)

\* {"url": "h/b", "path": "a.tmp"}
E_atmp == Dict(<< <<"url", Str(U_b)>>, <<"path", Str(<<"a">> \o TmpSuffix)>> >>)

\* {"url": "h/a", "path": "a/b"}
E_ab == Dict(<< <<"url", Str(U_a)>>, <<"path", Str(<<"a","/","b">>)>> >>)

\* {"url": "h/b", "path": "a.tmp/b"}
E_atmpb ==
    Dict(<< <<"url", Str(U_b)>>, <<"path", Str(<<"a">> \o TmpSuffix \o <<"/","b">>)>> >>)

\* {"download_url": "h/Vae?k"}
E_vae == Dict(<< <<"download_url", Str(U_vae)>> >>)

\* {"name": "n"}
E_nourl == Dict(<< <<"name", Str(<<"n">>)>> >>)

\* "x": a value that is no entry
E_meta == Str(<<"x">>)

MainPool == {E_a, E_atmp, E_ab, E_atmpb, E_nourl, E_meta}

MainManifests == {List(es) : es \in SeqsUpTo(MainPool, MaxEntries)} \cup {Num(7)}

Init == InitFrom(MainManifests)

Spec == Init /\ [][Next]_vars

-----------------------------------------------------------------------------
(* Manifests of every top-level shape *)

ShapePool == {E_vae, E_nourl}

ShapeLists == {List(es) : es \in SeqsUpTo(ShapePool, MaxEntries)}

\* what a key of a top-level mapping may hold
ShapeVals == ShapePool \cup ShapeLists \cup {E_meta}

\* the keys of a top-level mapping, in insertion order
ShapeKeys ==
    { <<>>, <<"models">>, <<"k">>, <<"models", "k">>, <<"k", "models">>, <<"k", "j">> }

ShapeDicts ==
    UNION { {Dict([i \in 1..Len(ks) |-> <<ks[i], vs[i]>>]) :
                vs \in [1..Len(ks) -> ShapeVals]} : ks \in ShapeKeys }

\* JSON scalars and null
ShapeScalars == {Num(7), Str(<<"x">>), None}

ShapeManifests == ShapeDicts \cup ShapeLists \cup ShapeScalars

InitShape == InitFrom(ShapeManifests)

SpecShape == InitShape /\ [][Next]_vars

-----------------------------------------------------------------------------
(* Manifests of one entry, over every combination of the recognized fields *)

Absent == [t |-> "absent"]

U_c == <<"h","/","c">>

U_d == <<"h","/","d">>

P_1 == <<"p","/","x">>

P_2 == <<"q">>

\* the fields that are present, in order
Present(items) == SelectSeq(items, LAMBDA kv : kv[2] # Absent)

ResolveEntries ==
    {Dict(Present(<< <<"download_url", a>>, <<"url", b>>, <<"file_url", c>>,
                     <<"location", d>>, <<"name", n>>, <<"path", p>>,
                     <<"relative_path", r>> >>)) :
        a \in {Absent, None, Str(<<>>), Str(U_a), Num(5)},
        b \in {Absent, None, Str(<<>>), Str(U_b)},
        c \in {Absent, Str(<<>>), Str(U_c)},
        d \in {Absent, Str(<<>>), Str(U_d)},
        n \in {Absent, Str(W_vae)},
        p \in {Absent, Str(<<>>), Str(P_1)},
        r \in {Absent, Str(P_2)}}

ResolveManifests == {List(<<e>>) : e \in ResolveEntries} \cup {Num(7)}

InitResolve == InitFrom(ResolveManifests)

SpecResolve == InitResolve /\ [][Next]_vars

-----------------------------------------------------------------------------
(* choose_folder_by_name on its own *)

FolderAlphabet == {"v", "a", "e", "p", "t", "V"}

FolderNames == SeqsUpTo(FolderAlphabet, MaxNameLen)

InitFolder ==
    \E n \in FolderNames :
        InitState(Num(0), 3, {}) /\ pc = "classify" /\ nameIn = n

\* folder = choose_folder_by_name(name)
ChooseFolder ==
    /\ pc = "classify"
    /\ folderOut' = choose_folder_by_name(nameIn)
    /\ pc' = "classified"
    /\ UNCHANGED <<inputVars, entries, idx, downloaded, exitCode, fs, dirs, callVars,
                   nameIn, reqs, oklog, status, fsStart, endFirst, promoted>>

NextFolder == ChooseFolder

SpecFolder == InitFolder /\ [][NextFolder]_vars

-----------------------------------------------------------------------------
(* download_file on its own: called for a destination that may exist *)

\* the destination of the call and another path in the same directory
CallDest == <<dest_root, <<"a">> >>

OtherPath == <<dest_root, <<"o">> >>

\* what lies below the root when the call begins: any of the destination, its
\* temporary path and another path as files, or the destination or the
\* temporary path as a directory
CallFiles == SUBSET {CallDest, TmpOf(CallDest), OtherPath}

CallDirs == {{}, {CallDest}, {TmpOf(CallDest)}}

InitCall ==
    \E F \in CallFiles : \E Ds \in CallDirs : \E u \in {Str(U_a), Num(5)} :
        /\ F \cap Ds = {}
        /\ argc = 3
        /\ data = Num(0)
        /\ pc = "urlopen"
        /\ run = "first"
        /\ entries = <<>>
        /\ idx = 0
        /\ downloaded = 0
        /\ exitCode = -1
        /\ fs = [p \in F |-> OldContent]
        /\ dirs = {<<dest_root>>} \cup Ds
        /\ url = u
        /\ dest = CallDest
        /\ attempt = 1
        /\ ok = FALSE
        /\ nameIn = <<>>
        /\ folderOut = <<>>
        /\ slept = <<>>
        /\ outcomes = <<>>
        /\ reqs = {}
        /\ oklog = <<>>
        /\ status = <<>>
        /\ fsStart = fs
        /\ fsCall = fs
        /\ dirsCall = dirs
        /\ endFirst = {}
        /\ promoted = {}

NextCall == UrlOpen \/ OpenTmp \/ CopyChunk \/ Replace \/ Sleep

SpecCall == InitCall /\ [][NextCall]_vars

-----------------------------------------------------------------------------
(* Observations the properties below are stated with *)

\* entry i resolves to a URL and a destination
Goes(i) == Resolve(entries[i]).kind = "go"

\* the final destination path of entry i
DestOf(i) == Resolve(entries[i]).dest

\* the indices in a log
InLog(log) == {log[k] : k \in 1..Len(log)}

\* path p holds the same file, or no file, in f and g
SameAt(p, f, g) ==
    /\ p \in DOMAIN f <=> p \in DOMAIN g
    /\ p \in DOMAIN f => f[p] = g[p]

\* download_file is executing, or has just returned
InCall == pc \in {"urlopen", "open", "copy", "replace", "sleep", "ret"}

\* no keyword of the layout table occurs in the lower-cased name
NoKeyword(name) ==
    \A i \in 1..Len(DEFAULT_LAYOUT) : ~RowMatches(i, Lower(name))

-----------------------------------------------------------------------------
(* C1: at every point of a run, the final destination path of every entry   *)
(* is absent, or holds what it held before the run, or holds the complete   *)
(* body of a download that succeeded: no partial file is visible there.     *)
C1_NoPartialAtDestination ==
    \A i \in 1..Len(entries) :
        Goes(i) =>
            \/ DestOf(i) \notin DOMAIN fs
            \/ DestOf(i) \in DOMAIN fsStart /\ fs[DestOf(i)] = fsStart[DestOf(i)]
            \/ Complete(fs[DestOf(i)]) /\ <<DestOf(i), fs[DestOf(i)]>> \in promoted

(* C2: a manifest whose top level is a mapping or a sequence never aborts   *)
(* the process: a run that ended has handled every entry, reached the       *)
(* summary and exited with status 0.                                        *)
C2_OnlyShapeFailureAborts ==
    (argc >= 3 /\ Recognized(data) /\ exitCode # -1) =>
        /\ pc = "done"
        /\ exitCode = 0
        /\ Len(status) = Len(entries)

(* C3: a filename that contains "vae" (in any case) is classified to the    *)
(* folder vae, and a filename that matches no keyword to checkpoints.       *)
C3_FolderClassification ==
    pc = "classified" =>
        /\ Contains(Lower(nameIn), W_vae) => folderOut = W_vae
        /\ NoKeyword(nameIn) => folderOut = W_checkpoints

(* C4: in the second run on the same manifest and root, an entry whose      *)
(* destination existed when the first run ended is not requested, not       *)
(* counted as downloaded, and its file is not modified.                     *)
C4_RerunIdempotent ==
    run = "second" =>
        \A i \in 1..Len(entries) :
            (Goes(i) /\ DestOf(i) \in endFirst) =>
                /\ i \notin reqs
                /\ i \notin InLog(oklog)
                /\ SameAt(DestOf(i), fs, fsStart)

(* C9: the Downloaded count of the summary is the number of entries whose   *)
(* download succeeded in this run, each of them has a file at its           *)
(* destination when the run ends, skipped and failed entries add nothing,   *)
(* the count is at most the number of entries, and no entry is downloaded   *)
(* twice.                                                                   *)
C9_SummaryCount ==
    pc = "done" =>
        /\ downloaded = Len(oklog)
        /\ downloaded = Cardinality({i \in 1..Len(status) : status[i].r = "downloaded"})
        /\ \A i \in InLog(oklog) : DestOf(i) \in DOMAIN fs
        /\ downloaded <= Len(entries)
        /\ Cardinality(InLog(oklog)) = Len(oklog)

-----------------------------------------------------------------------------
(* C5: one download_file call makes attempts 1, 2, ... up to at most 3,     *)
(* stops at the first attempt that succeeds, and has slept 1.5 * k seconds  *)
(* after failed attempt k before attempt k + 1 starts; when all attempts    *)
(* failed no file is at the destination, the entry is reported as failed    *)
(* and the loop goes on to the next entry.                                  *)

\* n failed attempts, as the outcome log shows them
Fails(n) == [k \in 1..n |-> "fail"]

\* the sleeps after failed attempts 1..n, in tenths of a second
Waits(n) == [k \in 1..n |-> 15 * k]

C5_AttemptsAndWaits ==
    /\ InCall => attempt \in 1..3
    /\ pc \in {"urlopen", "open", "copy", "replace"} =>
          outcomes = Fails(attempt - 1) /\ slept = Waits(attempt - 1)
    /\ pc = "sleep" =>
          outcomes = Fails(attempt) /\ slept = Waits(attempt - 1)
    /\ (pc = "ret" /\ ok) =>
          outcomes = Fails(attempt - 1) \o <<"ok">> /\ slept = Waits(attempt - 1)
    /\ (pc = "ret" /\ ~ok) =>
          /\ outcomes = Fails(3)
          /\ slept = Waits(3)
          /\ dest \notin DOMAIN fs

\* after exhaustion: reported as failed, next entry, process still running
C5_ExhaustionContinues ==
    (pc = "ret" /\ ~ok) =>
        /\ pc' = "loop"
        /\ idx' = idx + 1
        /\ status' = Append(status, [r |-> "failed", dest |-> dest])
        /\ downloaded' = downloaded
        /\ exitCode' = -1

C5_RetryPolicy == []C5_AttemptsAndWaits /\ [][C5_ExhaustionContinues]_vars

\* all three attempts of the first of two entries failed, the loop is at the second
C5_Witness ==
    /\ pc = "loop"
    /\ Len(entries) = 2
    /\ idx = 2
    /\ Goes(1)
    /\ status = <<[r |-> "failed", dest |-> DestOf(1)]>>
    /\ DestOf(1) \notin DOMAIN fs

(* C10: while download_file runs for destination D, and when it has         *)
(* returned, every path other than D and D + ".tmp" holds what it held when *)
(* the call began and no directory was made; after a return of True D       *)
(* exists and D + ".tmp" does not; after a return of False D is as it was.  *)

\* str(D) + ".tmp", for a D with at least one segment
DotTmp(D) == SubSeq(D, 1, Len(D) - 1) \o << D[Len(D)] \o <<".", "t", "m", "p">> >>

C10_DownloadFootprint ==
    InCall =>
        /\ Len(dest) >= 1
        /\ \A p \in (DOMAIN fs \cup DOMAIN fsCall) \ {dest, DotTmp(dest)} :
              SameAt(p, fs, fsCall)
        /\ dirs = dirsCall
        /\ (pc = "ret" /\ ok) => dest \in DOMAIN fs /\ DotTmp(dest) \notin DOMAIN fs
        /\ (pc = "ret" /\ ~ok) => SameAt(dest, fs, fsCall)

\* a call for a destination that existed returned False: the destination and
\* the other file are as they were, the temporary file is what the call left
C10_Witness ==
    /\ pc = "ret"
    /\ ~ok
    /\ dest \in DOMAIN fs
    /\ OtherPath \in DOMAIN fs
    /\ DotTmp(dest) \in DOMAIN fs
    /\ DotTmp(dest) \notin DOMAIN fsCall

-----------------------------------------------------------------------------
(* C6: once the manifest is loaded, the entries are the models list when    *)
(* the top level is a mapping whose models field is a sequence, the         *)
(* mapping's values in order when it is a mapping without such a list, and  *)
(* the sequence itself when it is a sequence; for a scalar or null the run  *)
(* has aborted with exit status 1, no entry processed, nothing requested,   *)
(* nothing downloaded and no file touched.                                  *)

\* positions of a "models" field that holds a sequence
ModelsAt(d) ==
    {i \in 1..Len(d.items) : d.items[i][1] = "models" /\ d.items[i][2].t = "list"}

C6_ManifestNormalization ==
    (argc >= 3 /\ pc # "start") =>
        CASE data.t = "dict" /\ ModelsAt(data) # {} ->
               \E i \in ModelsAt(data) : entries = data.items[i][2].elems
          [] data.t = "dict" /\ ModelsAt(data) = {} ->
               /\ Len(entries) = Len(data.items)
               /\ \A i \in 1..Len(entries) : entries[i] = data.items[i][2]
          [] data.t = "list" ->
               entries = data.elems
          [] OTHER ->
               /\ pc = "aborted"
               /\ exitCode = 1
               /\ entries = <<>>
               /\ status = <<>>
               /\ reqs = {}
               /\ downloaded = 0
               /\ fs = fsStart

\* a mapping with a models field that is no sequence: both values are entries
C6_Witness ==
    /\ pc = "loop"
    /\ data.t = "dict"
    /\ Len(data.items) = 2
    /\ HasKey(data, "models")
    /\ ModelsAt(data) = {}
    /\ Len(entries) = 2

-----------------------------------------------------------------------------
(* C7 and C8: what one entry resolves to *)

\* the values of the four URL fields of entry e, in the order they are tried
UrlFields(e) ==
    <<Get(e, "download_url"), Get(e, "url"), Get(e, "file_url"), Get(e, "location")>>

\* the display name of entry e when its URL is u
DisplayName(e, u) ==
    IF Truthy(ResolveName(e)) THEN ResolveName(e) ELSE NameFromUrl(u)

\* destRoot / folder / displayName
ByFolder(e, u) ==
    PathJoin(PathJoin(Root, choose_folder_by_name(DisplayName(e, u).s)),
             DisplayName(e, u).s)

NonEmptyStr(v) == v.t = "str" /\ v.s # <<>>

\* the URL and the destination the program worked with for entry i, where the
\* run shows them: in the report of a processed entry, and during its download
ShownDest(i) ==
    IF i <= Len(status) /\ status[i].r # "nourl" THEN {status[i].dest}
    ELSE IF i = idx /\ InCall THEN {dest}
    ELSE {}

ShownUrl(i) == IF i = idx /\ InCall THEN {url} ELSE {}

(* C7 as stated: an entry with a URL that supplies a path (or               *)
(* relative_path) field goes to destRoot / that path; the folder            *)
(* classification decides only when neither field is supplied.              *)
C7_ExplicitPathPrecedence ==
    \A i \in 1..Len(entries) :
        entries[i].t = "dict" =>
            LET e == entries[i]
                rel == IF HasKey(e, "path") THEN Get(e, "path")
                       ELSE Get(e, "relative_path")
            IN  \A D \in ShownDest(i) :
                    IF HasKey(e, "path") \/ HasKey(e, "relative_path")
                    THEN D = PathJoin(Root, rel.s)
                    ELSE D = ByFolder(e, ResolveUrl(e))

(* C7 amended: an entry with a URL whose path, or else relative_path, holds *)
(* a non-empty string goes to destRoot / that string, whatever its name     *)
(* classifies to; when neither holds a non-empty value (absent or empty)    *)
(* the destination is destRoot / folder / displayName.                      *)
C7_NonEmptyPathPrecedence ==
    \A i \in 1..Len(entries) :
        entries[i].t = "dict" =>
            LET e == entries[i]
                p == Get(e, "path")
                r == Get(e, "relative_path")
            IN  \A D \in ShownDest(i) :
                    IF NonEmptyStr(p) THEN D = PathJoin(Root, p.s)
                    ELSE IF NonEmptyStr(r) THEN D = PathJoin(Root, r.s)
                    ELSE D = ByFolder(e, ResolveUrl(e))

\* an entry named "vae" with a path is being downloaded to destRoot / path
C7_Witness ==
    /\ pc = "urlopen"
    /\ Len(entries) = 1
    /\ Get(entries[1], "name") = Str(W_vae)
    /\ Get(entries[1], "path") = Str(P_1)
    /\ HasKey(entries[1], "relative_path")
    /\ dest = <<dest_root, <<"p">>, <<"x">> >>

(* C8 as stated: the URL is the value of the first of download_url, url,    *)
(* file_url, location that is present with a non-null value, and the entry  *)
(* is skipped for want of a URL exactly when none of the four fields is     *)
(* present with such a value.                                               *)
C8_FirstPresentUrl ==
    \A i \in 1..Len(entries) :
        entries[i].t = "dict" =>
            LET e == entries[i]
                keys == <<"download_url", "url", "file_url", "location">>
                given == {k \in 1..4 : HasKey(e, keys[k]) /\ Get(e, keys[k]) # None}
            IN  /\ \A u \in ShownUrl(i) : given # {} /\ u = UrlFields(e)[Min(given)]
                /\ i <= Len(status) =>
                      (status[i].r = "nourl" <=> given = {})

(* C8 amended: the URL is the value of the first of download_url, url,      *)
(* file_url, location whose value is truthy (not null, not empty), and the  *)
(* entry is skipped, with no directory made and nothing requested, exactly  *)
(* when none of the four fields holds a truthy value.                       *)
C8_FirstTruthyUrl ==
    \A i \in 1..Len(entries) :
        entries[i].t = "dict" =>
            LET e == entries[i]
                given == {k \in 1..4 : Truthy(UrlFields(e)[k])}
            IN  /\ \A u \in ShownUrl(i) : given # {} /\ u = UrlFields(e)[Min(given)]
                /\ i \in reqs => given # {}
                /\ i <= Len(status) => (status[i].r = "nourl" <=> given = {})
                /\ (Len(entries) = 1 /\ status = <<[r |-> "nourl", dest |-> <<>>]>>) =>
                      dirs = {} /\ fs = fsStart /\ reqs = {} /\ pc \in {"loop", "done"}

\* download_url is present but empty, and the download uses the url field
C8_Witness ==
    /\ pc = "urlopen"
    /\ Len(entries) = 1
    /\ Get(entries[1], "download_url") = Str(<<>>)
    /\ url = Str(U_b)
    /\ HasKey(entries[1], "file_url")

====
